---------------------------- MODULE Spec2Model ----------------------------
(***************************************************************************)
(* Gemini Watermark Remover (app.js, the batch version that starts at      *)
(* line 341): geometry lookup, reverse alpha blending over the watermark   *)
(* rectangle, and the two-worker batch scheduler with its result URLs.     *)
(*                                                                         *)
(* Numbers.  JavaScript computes the blend in IEEE doubles from a Float32  *)
(* alpha.  Here an alpha is an exact fraction [num, den]; the value the    *)
(* code rounds is then an exact fraction too, and the double agrees with   *)
(* it except that a value lying exactly on k + 1/2 can come out on either  *)
(* side of the tie.  Math.round is therefore modelled with an explicit     *)
(* direction for exact ties, and the actions take both directions.         *)
(*                                                                         *)
(* Steps.  The page runs on one thread: a handler runs from the event to   *)
(* its first wait on the browser, and the code after an await that the     *)
(* browser settles runs with all the continuations it unblocks before the  *)
(* next event.  An action is one such stretch.  The waits are the load of  *)
(* a reference image, fileToImage, canvas.toBlob and zip.generateAsync;    *)
(* an export that UPNG encodes returns without a wait, so the item is      *)
(* completed in the step that started its export.                          *)
(*                                                                         *)
(* Specifications.  Spec is the scheduler under every event of the page    *)
(* but the archive button, with both libraries loaded.  SpecIntake is the  *)
(* validation with long submissions, SpecOneBatch one batch of up to       *)
(* MaxLongBatch files with no other event, SpecExport the export options   *)
(* with window.UPNG loaded, missing or throwing, SpecZip the archive       *)
(* button.  SpecSetup is the calls of handleFiles against the load and     *)
(* error events of the reference images, SpecHang one batch with a file    *)
(* whose processing may never resolve (both state the fairness of the      *)
(* browser's events), SpecArchive the archive of files with similar names, *)
(* SpecQuality the export at every quality, SpecReject batches with        *)
(* rejected submissions.  SpecGeometry, SpecPixel and SpecRaster are the   *)
(* pure functions.                                                         *)
(***************************************************************************)
EXTENDS Integers, Sequences, FiniteSets, TLC

VARIABLES
    geo,    \* geometry resolver: image size, resolved config and rectangle
    px,     \* one channel value through composite and reverse blend
    ras,    \* a raster, an alpha map and a rectangle for removeWatermark
    items,          \* every BatchItem object created so far, by identity
    batchItems,     \* the identities in the global array batchItems, in order
    processedCount,
    failedCount,
    runs,           \* the calls of handleFiles and reprocessCurrentBatch that went on
                    \* to schedule: closure state (cursor, workers) and history
    bg48,           \* the two reference images: "loading", "loaded" or "failed"
    bg96,
    bgHandler,      \* the run whose resolve and reject sit in onload and onerror
    alpha48,        \* whether the alpha map is built (not null)
    alpha96,
    mapBuilds,      \* history: the calls of buildAlphaMapFromImage for each size
    statusEl,       \* the global status line
    progressText,   \* the progress line as last written by setProgress
    ui,             \* the checked format radio and the value of the quality select
    libs,           \* window.UPNG and window.JSZip as the page loaded them
    downloadAllDisabled,    \* downloadAllBtn.disabled
    zips            \* the calls of downloadAllAsZip that went on to build an archive

\* the state of the batch page
batchVars == <<items, batchItems, processedCount, failedCount, runs,
               bg48, bg96, bgHandler, alpha48, alpha96, mapBuilds, statusEl,
               progressText,
               ui, libs, downloadAllDisabled, zips>>

vars == <<geo, px, ras, batchVars>>

-----------------------------------------------------------------------------
(* Bounds of the model                                                     *)

\* image sizes 0..MaxSmallDim are enumerated, and those within NearEdge of 1024
MaxSmallDim == 82
NearEdge == 2
\* alphas of the round trip are k/AlphaDen (the claim's reals) and m/255 (the code's)
AlphaDen == 500
\* rasters of removeWatermark are up to MaxRaster x MaxRaster, rectangles up to
\* MaxRect x MaxRect
MaxRaster == 3
MaxRect == 2
\* files per submission; calls of handleFiles and reprocessCurrentBatch that schedule
MaxFiles == 2
MaxRuns == 2
\* supported files per submission to the validation
MaxIntake == 11
\* calls of downloadAllAsZip that build an archive
MaxZips == 1
\* files of the submission when a single batch is followed to its end
MaxLongBatch == 3

-----------------------------------------------------------------------------
(* Watermark algorithm helpers                                             *)

ALPHA_THRESHOLD == [num |-> 2, den |-> 1000]
MAX_ALPHA == [num |-> 99, den |-> 100]
LOGO_VALUE == 255

\* a < b, a <= b for fractions with positive denominators
FracLess(a, b) == a.num * b.den < b.num * a.den
FracLeq(a, b) == a.num * b.den <= b.num * a.den

Max(a, b) == IF a >= b THEN a ELSE b
Min(a, b) == IF a <= b THEN a ELSE b

detectWatermarkConfigOr(imageWidth, imageHeight) ==
    IF imageWidth > 1024 \/ imageHeight > 1024
    THEN [logoSize |-> 96, marginRight |-> 64, marginBottom |-> 64]
    ELSE [logoSize |-> 48, marginRight |-> 32, marginBottom |-> 32]

detectWatermarkConfig(imageWidth, imageHeight) ==
    IF imageWidth > 1024 /\ imageHeight > 1024
    THEN [logoSize |-> 96, marginRight |-> 64, marginBottom |-> 64]
    ELSE [logoSize |-> 48, marginRight |-> 32, marginBottom |-> 32]

calculateWatermarkPositionNoLogo(imageWidth, imageHeight, config) ==
    [x |-> imageWidth - config.marginRight,
     y |-> imageHeight - config.marginBottom,
     width |-> config.logoSize,
     height |-> config.logoSize]

calculateWatermarkPosition(imageWidth, imageHeight, config) ==
    [x |-> imageWidth - config.marginRight - config.logoSize,
     y |-> imageHeight - config.marginBottom - config.logoSize,
     width |-> config.logoSize,
     height |-> config.logoSize]

\* Math.round(n / d) for d > 0: the nearest integer, an exact tie going up in exact
\* arithmetic (tieUp) or down when the double fell just below it (~tieUp)
IsTie(n, d) == (2 * n + d) % (2 * d) = 0
MathRound(n, d, tieUp) ==
    IF IsTie(n, d) /\ ~tieUp THEN ((2 * n + d) \div (2 * d)) - 1
    ELSE (2 * n + d) \div (2 * d)

\* alpha = Math.min(alpha, MAX_ALPHA)
ClampAlpha(alpha) == IF FracLess(MAX_ALPHA, alpha) THEN MAX_ALPHA ELSE alpha

ReverseBlendFloor(watermarked, alpha, tieUp) ==
    LET a == ClampAlpha(alpha)
    IN  Max(0, Min(255, (watermarked * a.den - a.num * LOGO_VALUE) \div (a.den - a.num)))

\* lines 452-459 for one channel:
\*   original = (watermarked - alpha * LOGO_VALUE) / (1 - alpha), rounded and clamped
ReverseBlend(watermarked, alpha, tieUp) ==
    LET a == ClampAlpha(alpha)
    IN  Max(0, Min(255, MathRound(watermarked * a.den - a.num * LOGO_VALUE,
                                  a.den - a.num, tieUp)))

\* the forward composite alpha * 255 + (1 - alpha) * original of the file's header
\* comment, as the 8-bit values a clamped byte array can store for it
Composite(original, alpha) ==
    LET n == alpha.num * LOGO_VALUE + (alpha.den - alpha.num) * original
    IN  {Max(0, Min(255, MathRound(n, alpha.den, t))) : t \in BOOLEAN}

-----------------------------------------------------------------------------
(* removeWatermark over a raster.  imageData is [width, height, data] with *)
(* data a function on 0 .. width*height*4 - 1.                             *)

\* a store to an index the byte array does not have is dropped
StoreRGBA(data, imgIdx, alpha, tieUp) ==
    [i \in DOMAIN data |->
        IF i \in imgIdx .. imgIdx + 3 THEN ReverseBlend(data[i], alpha, tieUp)
        ELSE data[i]]

\* the loop over c = 0, 1, 2 (lines 456-460)
StoreRGB(data, imgIdx, alpha, tieUp) ==
    [i \in DOMAIN data |->
        IF i \in imgIdx .. imgIdx + 2 THEN ReverseBlend(data[i], alpha, tieUp)
        ELSE data[i]]

\* the body of the two loops, lines 446-460
RemovePixel(data, imgWidth, alphaMap, position, row, col, tieUp) ==
    LET imgIdx == ((position.y + row) * imgWidth + (position.x + col)) * 4
        alphaIdx == row * position.width + col
        alpha == alphaMap[alphaIdx]
    IN  IF FracLess(alpha, ALPHA_THRESHOLD) THEN data
        ELSE StoreRGB(data, imgIdx, alpha, tieUp)

\* rows outer, columns inner: k counts the pixels of the rectangle in that order
RECURSIVE RemoveLoop(_, _, _, _, _, _)
RemoveLoop(data, imgWidth, alphaMap, position, k, tieUp) ==
    IF k >= position.width * position.height THEN data
    ELSE RemoveLoop(RemovePixel(data, imgWidth, alphaMap, position,
                                k \div position.width, k % position.width, tieUp),
                    imgWidth, alphaMap, position, k + 1, tieUp)

removeWatermark(imageData, alphaMap, position, tieUp) ==
    [imageData EXCEPT !.data = RemoveLoop(imageData.data, imageData.width, alphaMap,
                                          position, 0, tieUp)]

-----------------------------------------------------------------------------
(* Geometry: every size of Dims is resolved once.                          *)

Dims == (0 .. MaxSmallDim) \cup ((1024 - NearEdge) .. (1024 + NearEdge))

NoConfig == [logoSize |-> 0, marginRight |-> 0, marginBottom |-> 0]
NoPosition == [x |-> 0, y |-> 0, width |-> 0, height |-> 0]

GeoIdle == [imageWidth |-> 0, imageHeight |-> 0, resolved |-> FALSE,
            config |-> NoConfig, position |-> NoPosition]

GeoInit ==
    \E w \in Dims, h \in Dims :
        geo = [GeoIdle EXCEPT !.imageWidth = w, !.imageHeight = h]

ResolveGeometry ==
    /\ ~geo.resolved
    /\ LET config == detectWatermarkConfig(geo.imageWidth, geo.imageHeight)
       IN  geo' = [geo EXCEPT
                !.resolved = TRUE,
                !.config = config,
                !.position = calculateWatermarkPosition(geo.imageWidth, geo.imageHeight,
                                                        config)]
    /\ UNCHANGED <<px, ras, batchVars>>

-----------------------------------------------------------------------------
(* One channel: an original value is composited with the logo under alpha, *)
(* stored as a byte, and reverse blended.                                  *)

AlphaGrid ==
    {[num |-> k, den |-> AlphaDen] : k \in 0 .. AlphaDen}
        \cup {[num |-> m, den |-> 255] : m \in 0 .. 255}

PxIdle == [original |-> 0, alpha |-> [num |-> 0, den |-> 1], watermarked |-> 0,
           restored |-> -1]

PxInit ==
    \E x \in 0 .. 255, a \in AlphaGrid :
        \E w \in Composite(x, a) :
            px = [original |-> x, alpha |-> a, watermarked |-> w, restored |-> -1]

\* the channel as removeWatermark treats it: skipped below the threshold
RestoreChannel ==
    /\ px.restored = -1
    /\ \E tieUp \in BOOLEAN :
          px' = [px EXCEPT !.restored =
                    IF FracLess(px.alpha, ALPHA_THRESHOLD) THEN px.watermarked
                    ELSE ReverseBlend(px.watermarked, px.alpha, tieUp)]
    /\ UNCHANGED <<geo, ras, batchVars>>

-----------------------------------------------------------------------------
(* A raster, an alpha map and a rectangle, which may reach outside the     *)
(* raster; removeWatermark runs once.  With an alpha map of the            *)
(* rectangle's size no statement of lines 441-463 throws: a read outside   *)
(* the byte array gives undefined, and a store outside it is dropped.      *)

AlphaLevels ==
    <<[num |-> 0, den |-> 255], [num |-> 1, den |-> 1000],
      [num |-> 128, den |-> 255], [num |-> 255, den |-> 255]>>

RasIdle == [imageData |-> [width |-> 0, height |-> 0, data |-> <<>>],
            before |-> <<>>, alphaMap |-> <<>>,
            position |-> NoPosition,
            removed |-> FALSE, outcome |-> "pending"]

RasInit ==
    \E w \in 2 .. MaxRaster, h \in 2 .. MaxRaster,
       rw \in 1 .. MaxRect, rh \in 1 .. MaxRect,
       fill \in {0, 200}, s0 \in 1 .. 4, s1 \in 0 .. 3 :
        \E x \in -1 .. w, y \in -1 .. h :
            LET data == [i \in 0 .. (w * h * 4 - 1) |-> (fill + 37 * i) % 256]
                amap == [i \in 0 .. (rw * rh - 1) |->
                            AlphaLevels[((s0 - 1 + i * s1) % 4) + 1]]
            IN  ras = [imageData |-> [width |-> w, height |-> h, data |-> data],
                       before |-> data, alphaMap |-> amap,
                       position |-> [x |-> x, y |-> y, width |-> rw, height |-> rh],
                       removed |-> FALSE, outcome |-> "pending"]

RemoveWatermark ==
    /\ ~ras.removed
    /\ \E tieUp \in BOOLEAN :
          ras' = [ras EXCEPT
                    !.imageData = removeWatermark(ras.imageData, ras.alphaMap,
                                                  ras.position, tieUp),
                    !.removed = TRUE, !.outcome = "returned"]
    /\ UNCHANGED <<geo, px, batchVars>>

-----------------------------------------------------------------------------
(* Batch state (lines 652-655, 468-474) as one record, so that the         *)
(* synchronous code between two suspension points composes as functions.   *)

St == [items |-> items, batchItems |-> batchItems,
       processedCount |-> processedCount, failedCount |-> failedCount,
       runs |-> runs, bg48 |-> bg48, bg96 |-> bg96, bgHandler |-> bgHandler,
       alpha48 |-> alpha48, alpha96 |-> alpha96, mapBuilds |-> mapBuilds,
       statusEl |-> statusEl, progressText |-> progressText,
       ui |-> ui, libs |-> libs, downloadAllDisabled |-> downloadAllDisabled,
       zips |-> zips]

Set(S) ==
    /\ items' = S.items
    /\ batchItems' = S.batchItems
    /\ processedCount' = S.processedCount
    /\ failedCount' = S.failedCount
    /\ runs' = S.runs
    /\ bg48' = S.bg48
    /\ bg96' = S.bg96
    /\ bgHandler' = S.bgHandler
    /\ alpha48' = S.alpha48
    /\ alpha96' = S.alpha96
    /\ mapBuilds' = S.mapBuilds
    /\ statusEl' = S.statusEl
    /\ progressText' = S.progressText
    /\ ui' = S.ui
    /\ libs' = S.libs
    /\ downloadAllDisabled' = S.downloadAllDisabled
    /\ zips' = S.zips

Range(s) == {s[k] : k \in DOMAIN s}

MAX_BATCH == 10
CONCURRENCY == 2

SupportedTypes == {"image/png", "image/jpeg", "image/webp"}

\* /image\/(png|jpeg|webp)/.test(file.type), for the type strings of FileKinds
isSupportedImageFile(file) == file.type \in SupportedTypes

setStatus(S, text, type) == [S EXCEPT !.statusEl = [text |-> text, type |-> type]]

\* the options the user picks among: the format radios, and the quality select in
\* thousandths
Formats == {"png", "jpeg"}
Qualities == {1000, 800}

getSelectedQuality(S) == S.ui.quality
getSelectedFormat(S) == S.ui.format

\* radio.checked = true fires no change event
setFormatToMatchFileType(S, fileType) ==
    [S EXCEPT !.ui.format = IF fileType = "image/jpeg" THEN "jpeg"
                            ELSE IF fileType = "image/webp" THEN "webp"
                            ELSE "png"]

getOutputSpec(S) ==
    LET q == getSelectedQuality(S)
        format == getSelectedFormat(S)
    IN  IF format = "jpeg" THEN [mime |-> "image/jpeg", ext |-> "jpg", quality |-> q]
        ELSE IF format = "webp" THEN [mime |-> "image/webp", ext |-> "webp", quality |-> q]
        ELSE [mime |-> "image/png", ext |-> "png", quality |-> q]

NoSpec == [mime |-> "", ext |-> "", quality |-> 0]

getPngColorCountForQualityAbove(q) ==
    IF q >= 999 THEN 0
    ELSE IF q > 850 THEN 256
    ELSE 192

getPngColorCountForQuality(q) ==
    IF q >= 999 THEN 0
    ELSE IF q >= 850 THEN 256
    ELSE 192

\* a blob is its type and the number of colours it was quantized to, 0 for none
NoBlob == [mime |-> "", colors |-> 0]

UpngNotice ==
    [missing |-> "PNG compression library failed to load. Exporting lossless PNG instead.",
     throws |-> "PNG compression failed for this image. Exporting lossless PNG instead."]

\* exportResultBlob (lines 593-650) up to its return or its wait on toBlob: the
\* state, whether the promise is settled without a wait, and the blob that is
\* returned or that toBlob is asked for
exportResultBlob(S, mime, quality) ==
    LET colors == getPngColorCountForQuality(quality)
    IN  IF mime = "image/jpeg" \/ mime = "image/webp"
        THEN [S |-> S, settled |-> FALSE, blob |-> [mime |-> mime, colors |-> 0]]
        ELSE IF colors = 0
        THEN [S |-> S, settled |-> FALSE, blob |-> [mime |-> "image/png", colors |-> 0]]
        ELSE IF S.libs.UPNG = "missing"
        THEN [S |-> setStatus(S, UpngNotice.missing, "info"), settled |-> FALSE,
              blob |-> [mime |-> "image/png", colors |-> 0]]
        ELSE IF S.libs.UPNG = "throws"
        THEN [S |-> setStatus(S, UpngNotice.throws, "info"), settled |-> FALSE,
              blob |-> [mime |-> "image/png", colors |-> 0]]
        ELSE [S |-> S, settled |-> TRUE, blob |-> [mime |-> "image/png", colors |-> colors]]

\* progressText.textContent = `${phase} ${done} of ${total}...`
setProgress(S, phase) ==
    [S EXCEPT !.progressText = [phase |-> phase,
                                done |-> S.processedCount + S.failedCount,
                                total |-> Len(S.batchItems)]]

\* the status line of an item's card; the card exists while the item is in the
\* current batch (createThumbCard in handleFiles, thumbGrid.innerHTML = "" in resetUI)
setItemStatus(S, item, text) ==
    IF item \in Range(S.batchItems) THEN [S EXCEPT !.items[item].label = text]
    ELSE S

\* URL.revokeObjectURL(item.resultUrl), when the item holds a URL
RevokeResultUrl(it) ==
    IF it.resultUrl # 0 THEN [it EXCEPT !.liveUrls = @ \ {it.resultUrl}] ELSE it

AnyCompleted(S) ==
    \E i \in Range(S.batchItems) :
        S.items[i].status = "completed" /\ S.items[i].resultBlob # NoBlob

updateDownloadAllEnabled(S) ==
    [S EXCEPT !.downloadAllDisabled = ~(AnyCompleted(S) /\ S.libs.JSZip)]

Active(run) == run.phase \in {"awaitMaps", "working"}

\* history: the runs that have not returned when a reset, a new batch or a
\* reprocess comes are overlapped by it
MarkOverlapped(S) ==
    [S EXCEPT !.runs = [r \in DOMAIN S.runs |->
                          IF Active(S.runs[r]) THEN [S.runs[r] EXCEPT !.overlapped = TRUE]
                          ELSE S.runs[r]]]

InFlight(run) == \E w \in DOMAIN run.workers : run.workers[w].pc \in {"decode", "export"}

\* history: the runs with a worker suspended in flight when a later run starts
MarkSuperseded(S) ==
    [S EXCEPT !.runs = [r \in DOMAIN S.runs |->
                          IF InFlight(S.runs[r])
                          THEN [S.runs[r] EXCEPT !.staleInFlight = TRUE]
                          ELSE S.runs[r]]]

\* the forEach of resetUI (lines 659-661) and its last three assignments
resetUI(S) ==
    LET S1 == [S EXCEPT !.items = [k \in DOMAIN S.items |->
                            IF k \in Range(S.batchItems) THEN RevokeResultUrl(S.items[k])
                            ELSE S.items[k]]]
    IN  [MarkOverlapped(setStatus(S1, "", "info")) EXCEPT
            !.downloadAllDisabled = TRUE,
            !.batchItems = <<>>, !.processedCount = 0, !.failedCount = 0]

\* the object literal of lines 820-828, with the history of its URLs and decodes;
\* nullMap is history too: removeWatermark was called for the item with a null map
NewItem(file) ==
    [file |-> file, status |-> "queued", label |-> "Queued", originalImg |-> FALSE,
     resultBlob |-> NoBlob, resultUrl |-> 0, resultExt |-> "", outSpec |-> NoSpec,
     urlsIssued |-> 0, liveUrls |-> {}, decodes |-> 0, nullMap |-> FALSE]

\* a worker between two items, or waiting in fileToImage or on toBlob for an item;
\* spec and blob are the OutputSpec and the blob of the export it waits for
Worker(pc, item, spec, blob) == [pc |-> pc, item |-> item, spec |-> spec, blob |-> blob]

IdleWorker == Worker("idle", 0, NoSpec, NoBlob)

\* the closure of one call: cursor and the two workers; p48 and p96 are the promises
\* of ensureAlphaMapsReady; items, spec, picked, overlapped, staleInFlight,
\* lateTouch and notices (the calls of setStatus("Some images failed...") made by
\* the workers of the call) are history
NewRun(kind, snapshot, spec, overlapped) ==
    [kind |-> kind, phase |-> "awaitMaps", cursor |-> 0, items |-> snapshot,
     spec |-> spec,
     picked |-> <<>>, p48 |-> "pending", p96 |-> "pending",
     workers |-> [w \in 1 .. CONCURRENCY |-> IdleWorker],
     overlapped |-> overlapped, staleInFlight |-> FALSE, lateTouch |-> {},
     notices |-> 0]

\* history: a worker of a run that was in flight when a later run started picked
\* or wrote an item of the current batch
Touch(S, r, item) ==
    IF S.runs[r].staleInFlight /\ item \in Range(S.batchItems)
    THEN [S EXCEPT !.runs[r].lateTouch = @ \cup {item}]
    ELSE S

RECURSIVE WorkerLoop(_, _, _)
RECURSIVE ProcessOneItem(_, _, _, _)
RECURSIVE AfterDecode(_, _, _, _)
RECURSIVE ItemFailed(_, _, _, _)
RECURSIVE ItemExported(_, _, _, _, _, _)

\* after Promise.all of the workers: setProgress("Done") (lines 868-871, 1012-1015)
RunDone(S, r) ==
    IF \A w \in 1 .. CONCURRENCY : S.runs[r].workers[w].pc = "finished"
    THEN [updateDownloadAllEnabled(setProgress(S, "Done")) EXCEPT
            !.runs[r].phase = "done"]
    ELSE S

WorkerLoopSkip(S, r, w) ==
    IF S.runs[r].cursor < Len(S.batchItems)
    THEN LET item == S.batchItems[S.runs[r].cursor + 1]
             S1 == [S EXCEPT !.runs[r].cursor = @ + 2,
                             !.runs[r].picked = Append(@, item)]
         IN  ProcessOneItem(Touch(S1, r, item), r, w, item)
    ELSE RunDone([S EXCEPT !.runs[r].workers[w] = Worker("finished", 0, NoSpec, NoBlob)],
                 r)

\* worker(): the test of the while loop and the pick, against the global
\* batchItems as it is now (lines 861-864, 1007-1009)
WorkerLoop(S, r, w) ==
    IF S.runs[r].cursor < Len(S.batchItems)
    THEN LET item == S.batchItems[S.runs[r].cursor + 1]
             S1 == [S EXCEPT !.runs[r].cursor = @ + 1,
                             !.runs[r].picked = Append(@, item)]
         IN  ProcessOneItem(Touch(S1, r, item), r, w, item)
    ELSE RunDone([S EXCEPT !.runs[r].workers[w] = Worker("finished", 0, NoSpec, NoBlob)],
                 r)

\* processOneItem up to its first await (lines 875-880): the decode is skipped
\* when the item holds its image
ProcessOneItem(S, r, w, item) ==
    LET S1 == setProgress(setItemStatus(S, item, "Loading"), "Processing")
    IN  IF S1.items[item].originalImg THEN AfterDecode(S1, r, w, item)
        ELSE [S1 EXCEPT !.items[item].decodes = @ + 1,
                        !.runs[r].workers[w] = Worker("decode", item, NoSpec, NoBlob)]

\* lines 881-908: the image is kept, the watermark removed with the alpha map of
\* the image's size, and the export started with the OutputSpec of this moment.
\* alphaMap[alphaIdx] on a map that was never built throws, which the catch of
\* line 953 turns into a failed item.  An export that returns without waiting on
\* toBlob is continued at once.
AfterDecode(S, r, w, item) ==
    LET S1 == setItemStatus([S EXCEPT !.items[item].originalImg = TRUE], item,
                            "Removing")
        S2 == Touch(S1, r, item)
        alphaMap == IF S2.items[item].file.large THEN S2.alpha96 ELSE S2.alpha48
        spec == getOutputSpec(S2)
        export == exportResultBlob(S2, spec.mime, spec.quality)
    IN  IF ~alphaMap
        THEN ItemFailed([S2 EXCEPT !.items[item].nullMap = TRUE], r, w, item)
        ELSE IF export.settled
        THEN ItemExported(export.S, r, w, item, spec, export.blob)
        ELSE [export.S EXCEPT
                !.runs[r].workers[w] = Worker("export", item, spec, export.blob)]

\* the catch and finally of processOneItem (lines 953-964)
CatchItemMarksBatch(S, item) ==
    LET S1 == [S EXCEPT !.failedCount = @ + 1,
                        !.items = [k \in DOMAIN S.items |->
                                     IF k = item \/ k \in Range(S.batchItems)
                                     THEN [S.items[k] EXCEPT !.status = "error"]
                                     ELSE S.items[k]]]
        S2 == setStatus(setItemStatus(S1, item, "Failed"), "Some images failed.", "error")
    IN  updateDownloadAllEnabled(setProgress(S2, "Processing"))

CatchItem(S, item) ==
    LET S1 == [S EXCEPT !.items[item].status = "error", !.failedCount = @ + 1]
        S2 == setStatus(setItemStatus(S1, item, "Failed"), "Some images failed.", "error")
    IN  updateDownloadAllEnabled(setProgress(S2, "Processing"))

\* a failed item, then the worker's loop
ItemFailed(S, r, w, item) ==
    WorkerLoop(Touch([CatchItem(S, item) EXCEPT !.runs[r].notices = @ + 1], r, item),
               r, w)

StoreResult(it, revoke, spec, blob) ==
    LET old == IF revoke THEN RevokeResultUrl(it) ELSE it
    IN  [old EXCEPT !.resultBlob = blob,
                    !.resultUrl = it.urlsIssued + 1,
                    !.resultExt = spec.ext,
                    !.outSpec = spec,
                    !.urlsIssued = @ + 1,
                    !.liveUrls = @ \cup {it.urlsIssued + 1},
                    !.status = "completed"]

\* lines 911-952 and the finally: the previous URL is revoked, the blob, a new URL
\* and the extension stored, the item completed and counted; then the worker's loop
ItemExported(S, r, w, item, spec, blob) ==
    LET S1 == [S EXCEPT !.items[item] = StoreResult(@, TRUE, spec, blob),
                        !.processedCount = @ + 1]
        S2 == setProgress(Touch(setItemStatus(S1, item, "Done"), r, item), "Processing")
    IN  WorkerLoop(updateDownloadAllEnabled(S2), r, w)

\* Array.from({ length: concurrency }, worker): each worker runs to its first await
RECURSIVE StartWorkers(_, _, _)
StartWorkers(S, r, w) ==
    IF w > CONCURRENCY THEN S
    ELSE StartWorkers(WorkerLoop(S, r, w), r, w + 1)

\* the two promises of ensureAlphaMapsReady (lines 477-488): an image that is
\* complete with a width resolves at once; otherwise this call's resolve and reject
\* replace whatever sat in onload and onerror
ensureAlphaMapsReady(S, r) ==
    [S EXCEPT !.runs[r].p48 = IF S.bg48 = "loaded" THEN "resolved" ELSE "pending",
              !.runs[r].p96 = IF S.bg96 = "loaded" THEN "resolved" ELSE "pending",
              !.bgHandler = [b48 |-> IF S.bg48 = "loaded" THEN @.b48 ELSE r,
                             b96 |-> IF S.bg96 = "loaded" THEN @.b96 ELSE r]]

MapsReadyRebuilds(S, r) ==
    StartWorkers([S EXCEPT !.alpha48 = TRUE, !.alpha96 = TRUE,
                           !.mapBuilds = [b48 |-> @.b48 + 1, b96 |-> @.b96 + 1],
                           !.runs[r].phase = "working"], r, 1)

\* lines 490-492 and 856-868: the maps are built when missing, the workers started
MapsReady(S, r) ==
    StartWorkers([S EXCEPT !.alpha48 = TRUE, !.alpha96 = TRUE,
                           !.mapBuilds = [b48 |-> IF S.alpha48 THEN @.b48 ELSE @.b48 + 1,
                                          b96 |-> IF S.alpha96 THEN @.b96 ELSE @.b96 + 1],
                           !.runs[r].phase = "working"], r, 1)

\* the catch of lines 848-854: a diagnostic, and the cards of the current batch
\* relabelled; item.status is not assigned
MapsFailed(S, r) ==
    LET S1 == setStatus(S, "Failed to load watermark maps.", "error")
    IN  [S1 EXCEPT !.runs[r].phase = "setupFailed",
                   !.items = [k \in DOMAIN S1.items |->
                                IF k \in Range(S1.batchItems)
                                THEN [S1.items[k] EXCEPT !.label = "Failed"]
                                ELSE S1.items[k]]]

Resume(S, r) ==
    IF S.runs[r].phase = "awaitMaps" /\ S.runs[r].p48 = "resolved"
                                     /\ S.runs[r].p96 = "resolved"
    THEN MapsReady(S, r)
    ELSE S

\* handleFiles from line 816 to its first suspension
AcceptFiles(S, onlyImages) ==
    LET overlapped == \E r \in DOMAIN S.runs : Active(S.runs[r])
        S1 == resetUI(S)
        first == Len(S1.items)
        S2 == [S1 EXCEPT
                 !.items = @ \o [k \in 1 .. Len(onlyImages) |-> NewItem(onlyImages[k])],
                 !.batchItems = [k \in 1 .. Len(onlyImages) |-> first + k],
                 !.processedCount = 0, !.failedCount = 0]
        S3 == setFormatToMatchFileType(
                  setProgress(setStatus(S2, "", "info"), "Processing"),
                  onlyImages[1].type)
        r == Len(S3.runs) + 1
        S4 == [MarkSuperseded(S3) EXCEPT
                 !.runs = Append(@, NewRun("handleFiles", S3.batchItems,
                                           getOutputSpec(S3), overlapped))]
    IN  Resume(ensureAlphaMapsReady(S4, r), r)

handleFilesRejectsTen(S, files) ==
    LET onlyImages == SelectSeq(files, isSupportedImageFile)
    IN  IF Len(onlyImages) = 0
        THEN setStatus(S, "Please upload PNG, JPG, or WebP images.", "error")
        ELSE IF Len(onlyImages) >= MAX_BATCH
        THEN setStatus(S, "Please upload 10 images or fewer.", "error")
        ELSE AcceptFiles(S, onlyImages)

handleFilesResetsFirst(S, files) ==
    LET onlyImages == SelectSeq(files, isSupportedImageFile)
        S1 == resetUI(S)
    IN  IF Len(onlyImages) = 0
        THEN setStatus(S1, "Please upload PNG, JPG, or WebP images.", "error")
        ELSE IF Len(onlyImages) > MAX_BATCH
        THEN setStatus(S1, "Please upload 10 images or fewer.", "error")
        ELSE AcceptFiles(S, onlyImages)

\* handleFiles (lines 804-872) up to its first suspension
handleFiles(S, files) ==
    LET onlyImages == SelectSeq(files, isSupportedImageFile)
    IN  IF Len(onlyImages) = 0
        THEN setStatus(S, "Please upload PNG, JPG, or WebP images.", "error")
        ELSE IF Len(onlyImages) > MAX_BATCH
        THEN setStatus(S, "Please upload 10 images or fewer.", "error")
        ELSE AcceptFiles(S, onlyImages)

ResetItemNoRevoke(it) ==
    [it EXCEPT !.status = "queued", !.resultUrl = 0, !.resultBlob = NoBlob,
               !.outSpec = NoSpec, !.label = "Queued"]

ResetItemKeepsBlob(it) ==
    [RevokeResultUrl(it) EXCEPT !.status = "queued", !.resultUrl = 0,
                                !.outSpec = NoSpec, !.label = "Queued"]

\* the forEach of reprocessCurrentBatch (lines 988-1001) for one item
ResetItem(it) ==
    [RevokeResultUrl(it) EXCEPT !.status = "queued", !.resultUrl = 0,
                                !.resultBlob = NoBlob, !.outSpec = NoSpec,
                                !.label = "Queued"]

\* the test of lines 975-980: PNG below 100% without a usable window.UPNG
NeedsMissingUpng(S) ==
    /\ getSelectedFormat(S) = "png"
    /\ getSelectedQuality(S) < 1000
    /\ S.libs.UPNG = "missing"

\* lines 982-1001 of reprocessCurrentBatch: the button, the counters, the progress
\* line and the reset of every item of the batch
ResetBatch(S) ==
    LET S0 == MarkSuperseded(MarkOverlapped(S))
        S1 == setProgress([S0 EXCEPT !.downloadAllDisabled = TRUE,
                                     !.processedCount = 0, !.failedCount = 0],
                          "Re-processing")
    IN  [S1 EXCEPT !.items = [k \in DOMAIN S1.items |->
                                IF k \in Range(S1.batchItems) THEN ResetItem(S1.items[k])
                                ELSE S1.items[k]]]

\* reprocessCurrentBatch (lines 971-1016) up to its first suspension
reprocessCurrentBatch(S) ==
    IF Len(S.batchItems) = 0 THEN S
    ELSE IF NeedsMissingUpng(S)
    THEN setStatus(S, "PNG compression needs UPNG.js, but it didn't load.", "error")
    ELSE LET overlapped == \E r \in DOMAIN S.runs : Active(S.runs[r])
             S2 == ResetBatch(S)
             r == Len(S2.runs) + 1
             S3 == [S2 EXCEPT !.runs = Append(@, [NewRun("reprocess", S2.batchItems,
                                                         getOutputSpec(S2), overlapped)
                                                  EXCEPT !.phase = "working",
                                                         !.p48 = "resolved",
                                                         !.p96 = "resolved"])]
         IN  StartWorkers(S3, r, 1)

\* A file name is the sequence of its characters.  \w of the regular expressions
\* is a letter, a digit or the underscore.
WordChars ==
    {"a", "b", "c", "d", "e", "f", "g", "h", "i", "j", "k", "l", "m", "n", "o", "p",
     "q", "r", "s", "t", "u", "v", "w", "x", "y", "z",
     "0", "1", "2", "3", "4", "5", "6", "7", "8", "9", "_"}

\* name.replace(/\.[^.]+$/, ""): the last dot and what follows it, when something
\* follows it
StripExtension(name) ==
    LET dots == {k \in DOMAIN name : name[k] = "."}
        last == IF dots = {} THEN 0 ELSE CHOOSE k \in dots : \A j \in dots : j <= k
    IN  IF last > 0 /\ last < Len(name) THEN SubSeq(name, 1, last - 1) ELSE name

\* .replace(/[^\w\-]+/g, "_"): every run of other characters becomes one underscore
RECURSIVE ReplaceOthers(_, _)
ReplaceOthers(name, inRun) ==
    IF name = <<>> THEN <<>>
    ELSE IF Head(name) \in WordChars \cup {"-"}
    THEN <<Head(name)>> \o ReplaceOthers(Tail(name), FALSE)
    ELSE IF inRun THEN ReplaceOthers(Tail(name), TRUE)
    ELSE <<"_">> \o ReplaceOthers(Tail(name), TRUE)

\* safeFileBaseName (lines 517-519)
safeFileBaseName(name) ==
    LET replaced == ReplaceOthers(StripExtension(name), FALSE)
        sliced == SubSeq(replaced, 1, Min(Len(replaced), 80))
    IN  IF sliced = <<>> THEN <<"i", "m", "a", "g", "e">> ELSE sliced

\* the archive entries of lines 1032-1036: the item, its blob, its extension, and
\* the name `unwatermarked_${base}.${ext}` as its two variable parts
ZipEntry(S, item) ==
    LET ext == IF S.items[item].resultExt = "" THEN "png" ELSE S.items[item].resultExt
    IN  [item |-> item, blob |-> S.items[item].resultBlob, ext |-> ext,
         name |-> [base |-> safeFileBaseName(S.items[item].file.name), ext |-> ext]]

\* zip.file(name, data) of JSZip adds the entry, or replaces the entry of that name
zipFile(archive, entry) ==
    {e \in archive : e.name # entry.name} \cup {[name |-> entry.name, item |-> entry.item]}

\* the archive after the forEach of lines 1032-1036
RECURSIVE zipFiles(_, _)
zipFiles(archive, entries) ==
    IF entries = <<>> THEN archive
    ELSE zipFiles(zipFile(archive, Head(entries)), Tail(entries))

downloadAllAsZipEveryItem(S) ==
    IF ~S.libs.JSZip
    THEN setStatus(S, "JSZip failed to load (needed for ZIP downloads).", "error")
    ELSE [setProgress([S EXCEPT !.downloadAllDisabled = TRUE], "Zipping") EXCEPT
            !.zips = Append(@, LET entries == [k \in 1 .. Len(S.batchItems) |->
                                                 ZipEntry(S, S.batchItems[k])]
                               IN  [pc |-> "generating", entries |-> entries,
                                    archive |-> zipFiles({}, entries)])]

\* downloadAllAsZip (lines 1018-1038) up to its wait on generateAsync
downloadAllAsZip(S) ==
    IF ~S.libs.JSZip
    THEN setStatus(S, "JSZip failed to load (needed for ZIP downloads).", "error")
    ELSE LET IsCompleted(i) == S.items[i].status = "completed"
                                    /\ S.items[i].resultBlob # NoBlob
             completed == SelectSeq(S.batchItems, IsCompleted)
         IN  IF Len(completed) = 0 THEN S
             ELSE [setProgress([S EXCEPT !.downloadAllDisabled = TRUE], "Zipping") EXCEPT
                     !.zips = Append(@, LET entries == [k \in 1 .. Len(completed) |->
                                                          ZipEntry(S, completed[k])]
                                        IN  [pc |-> "generating", entries |-> entries,
                                             archive |-> zipFiles({}, entries)])]

\* lines 1038-1047: generateAsync resolved or rejected, and the finally
zipGenerated(S, z, ok) ==
    LET S1 == IF ok THEN setStatus([S EXCEPT !.zips[z].pc = "downloaded"],
                                   "ZIP ready.", "info")
              ELSE setStatus([S EXCEPT !.zips[z].pc = "failed"],
                             "Failed to create ZIP. Please try again.", "error")
    IN  setProgress(updateDownloadAllEnabled(S1), "Done")

-----------------------------------------------------------------------------
(* Events                                                                  *)

Accepts(files) ==
    LET n == Len(SelectSeq(files, isSupportedImageFile)) IN n >= 1 /\ n <= MAX_BATCH

\* a drop or a file-input change with these files (lines 1065-1083)
HandleFiles(files) ==
    /\ Len(files) > 0
    /\ Accepts(files) => Len(runs) < MaxRuns
    /\ Set(handleFiles(St, files))
    /\ UNCHANGED <<geo, px, ras>>

\* reprocessCurrentBatch would go on to schedule
Schedules(S) == ~NeedsMissingUpng(S)

\* a change of the quality select (line 1087), made while a batch is shown
ChangeQuality ==
    \E q \in Qualities \ {ui.quality} :
        LET S == [St EXCEPT !.ui.quality = q]
        IN  /\ Len(batchItems) > 0
            /\ Schedules(S) => Len(runs) < MaxRuns
            /\ Set(reprocessCurrentBatch(S))
            /\ UNCHANGED <<geo, px, ras>>

\* a change of a format radio (line 1088), made while a batch is shown
ChangeFormat ==
    \E f \in Formats \ {ui.format} :
        LET S == [St EXCEPT !.ui.format = f]
        IN  /\ Len(batchItems) > 0
            /\ Schedules(S) => Len(runs) < MaxRuns
            /\ Set(reprocessCurrentBatch(S))
            /\ UNCHANGED <<geo, px, ras>>

\* a click on the download-all button (line 1086)
DownloadAll ==
    /\ ~downloadAllDisabled
    /\ Len(downloadAllAsZip(St).zips) <= MaxZips
    /\ Set(downloadAllAsZip(St))
    /\ UNCHANGED <<geo, px, ras>>

\* zip.generateAsync settles (line 1038)
ZipSettled ==
    \E z \in DOMAIN zips, ok \in BOOLEAN :
        /\ zips[z].pc = "generating"
        /\ Set(zipGenerated(St, z, ok))
        /\ UNCHANGED <<geo, px, ras>>

\* a click on the reset button (line 1085), which handleFiles enables (line 833)
\* and resetUI disables (line 669)
ResetUI ==
    /\ Len(batchItems) > 0
    /\ Set(resetUI(St))
    /\ UNCHANGED <<geo, px, ras>>

\* the load event of a reference image: the resolve sitting in onload is called
BgLoaded ==
    \E img \in {48, 96} :
        /\ (IF img = 48 THEN bg48 ELSE bg96) = "loading"
        /\ LET h == IF img = 48 THEN bgHandler.b48 ELSE bgHandler.b96
               S1 == IF img = 48 THEN [St EXCEPT !.bg48 = "loaded"]
                     ELSE [St EXCEPT !.bg96 = "loaded"]
               S2 == IF h = 0 THEN S1
                     ELSE IF img = 48 THEN [S1 EXCEPT !.runs[h].p48 = "resolved"]
                     ELSE [S1 EXCEPT !.runs[h].p96 = "resolved"]
           IN  Set(IF h = 0 THEN S2 ELSE Resume(S2, h))
        /\ UNCHANGED <<geo, px, ras>>

\* the error event of a reference image: the reject sitting in onerror is called
BgFailed ==
    \E img \in {48, 96} :
        /\ (IF img = 48 THEN bg48 ELSE bg96) = "loading"
        /\ LET h == IF img = 48 THEN bgHandler.b48 ELSE bgHandler.b96
               S1 == IF img = 48 THEN [St EXCEPT !.bg48 = "failed"]
                     ELSE [St EXCEPT !.bg96 = "failed"]
           IN  Set(IF h # 0 /\ S1.runs[h].phase = "awaitMaps" THEN MapsFailed(S1, h)
                   ELSE S1)
        /\ UNCHANGED <<geo, px, ras>>

\* fileToImage settles for the worker waiting on it (line 880): the image of a
\* corrupt file fires onerror
DecodeSettled ==
    \E r \in DOMAIN runs, w \in 1 .. CONCURRENCY :
        /\ runs[r].workers[w].pc = "decode"
        /\ LET item == runs[r].workers[w].item
           IN  Set(IF items[item].file.corrupt THEN ItemFailed(St, r, w, item)
                   ELSE AfterDecode(St, r, w, item))
        /\ UNCHANGED <<geo, px, ras>>

\* canvas.toBlob calls back for the worker waiting on its export (line 908), with
\* the blob or with null
ExportSettled ==
    \E r \in DOMAIN runs, w \in 1 .. CONCURRENCY, blob \in BOOLEAN :
        /\ runs[r].workers[w].pc = "export"
        /\ LET item == runs[r].workers[w].item
           IN  Set(IF blob THEN ItemExported(St, r, w, item, runs[r].workers[w].spec,
                                             runs[r].workers[w].blob)
                   ELSE ItemFailed(St, r, w, item))
        /\ UNCHANGED <<geo, px, ras>>

-----------------------------------------------------------------------------
(* The batch scheduler                                                     *)

\* the files of a submission to the scheduler: a good PNG and a JPEG that
\* does not decode
FileKinds ==
    {[type |-> "image/png", corrupt |-> FALSE, large |-> FALSE],
     [type |-> "image/jpeg", corrupt |-> TRUE, large |-> FALSE]}

\* the k-th file of a submission is named a, b, ... with the extension of its type
FileName(k, type) ==
    <<<<"a", "b", "c", "d", "e">>[k], ".">>
        \o (IF type = "image/jpeg" THEN <<"j", "p", "g">> ELSE <<"p", "n", "g">>)

Named(kinds) ==
    [k \in DOMAIN kinds |->
        [type |-> kinds[k].type, corrupt |-> kinds[k].corrupt, large |-> kinds[k].large,
         name |-> FileName(k, kinds[k].type)]]

FileLists == {Named(kinds) : kinds \in UNION {[1 .. n -> FileKinds] : n \in 1 .. MaxFiles}}

\* submissions to the validation: n supported files, n up to 2 or from 9 on, after
\* u files of another type
IntakeFile(k) ==
    [type |-> IF k % 3 = 0 THEN "image/webp"
              ELSE IF k % 3 = 1 THEN "image/png" ELSE "image/jpeg",
     corrupt |-> FALSE, large |-> FALSE]

OtherFile == [type |-> "image/gif", corrupt |-> FALSE, large |-> FALSE]

IntakeLists ==
    {[k \in 1 .. (u + n) |-> IF k <= u THEN OtherFile ELSE IntakeFile(k)] :
        u \in 0 .. 1, n \in (0 .. 2) \cup ((MAX_BATCH - 1) .. MaxIntake)} \ {<<>>}

BatchIdle ==
    /\ items = <<>>
    /\ batchItems = <<>>
    /\ processedCount = 0
    /\ failedCount = 0
    /\ runs = <<>>
    /\ bg48 = "loading"
    /\ bg96 = "loading"
    /\ bgHandler = [b48 |-> 0, b96 |-> 0]
    /\ alpha48 = FALSE
    /\ alpha96 = FALSE
    /\ mapBuilds = [b48 |-> 0, b96 |-> 0]
    /\ statusEl = [text |-> "", type |-> "info"]
    /\ progressText = [phase |-> "", done |-> 0, total |-> 0]
    /\ downloadAllDisabled = TRUE
    /\ zips = <<>>

\* the page as loaded: PNG at 100%, both libraries there
LibsLoaded ==
    /\ ui = [format |-> "png", quality |-> 1000]
    /\ libs = [UPNG |-> "loaded", JSZip |-> TRUE]

PureIdle == geo = GeoIdle /\ px = PxIdle /\ ras = RasIdle

Init == BatchIdle /\ LibsLoaded /\ PureIdle

Next ==
    \/ \E files \in FileLists : HandleFiles(files)
    \/ ChangeQuality
    \/ ChangeFormat
    \/ ResetUI
    \/ BgLoaded
    \/ BgFailed
    \/ DecodeSettled
    \/ ExportSettled

Spec == Init /\ [][Next]_vars

\* the validation of handleFiles with submissions of up to MaxIntake supported
\* files; the workers it starts stay suspended
NextIntake ==
    \/ \E files \in IntakeLists : HandleFiles(files)
    \/ ResetUI
    \/ BgLoaded
    \/ BgFailed

SpecIntake == Init /\ [][NextIntake]_vars

\* one submission of up to MaxLongBatch files, followed to its end with nothing
\* else happening on the page
LongLists == UNION {[1 .. n -> FileKinds] : n \in 1 .. MaxLongBatch}

HandleFilesOnce ==
    /\ runs = <<>>
    /\ \E files \in LongLists : Set(handleFiles(St, files))
    /\ UNCHANGED <<geo, px, ras>>

NextOneBatch ==
    \/ HandleFilesOnce
    \/ BgLoaded
    \/ BgFailed
    \/ DecodeSettled
    \/ ExportSettled

SpecOneBatch == Init /\ [][NextOneBatch]_vars

\* the fetch of a reference image ends, with a load or an error event: the step
\* of BgLoaded or BgFailed as the two images show it
ImageSettles ==
    \/ bg48 = "loading" /\ bg48' \in {"loaded", "failed"} /\ bg96' = bg96
    \/ bg96 = "loading" /\ bg96' \in {"loaded", "failed"} /\ bg48' = bg48

\* the calls of handleFiles and the two reference images, no item being settled;
\* the browser ends the fetch of each image
NextSetup ==
    \/ \E files \in FileLists : HandleFiles(files)
    \/ BgLoaded
    \/ BgFailed

SpecSetup == Init /\ [][NextSetup]_vars /\ WF_<<bg48, bg96>>(ImageSettles)

\* one submission of up to MaxLongBatch files of which at most one hangs: its
\* fileToImage or its toBlob may never call back
HangKinds ==
    {[type |-> f.type, corrupt |-> f.corrupt, large |-> f.large, hangs |-> h] :
        f \in FileKinds, h \in BOOLEAN}

HangLists ==
    {files \in UNION {[1 .. n -> HangKinds] : n \in 1 .. MaxLongBatch} :
        Cardinality({k \in DOMAIN files : files[k].hangs}) <= 1}

HandleHangLists ==
    /\ runs = <<>>
    /\ \E files \in HangLists : Set(handleFiles(St, files))
    /\ UNCHANGED <<geo, px, ras>>

NextHang ==
    \/ HandleHangLists
    \/ BgLoaded
    \/ DecodeSettled
    \/ ExportSettled

\* a worker waits in fileToImage (pc "decode") or on toBlob (pc "export") for item i
WaitsAt(i, pc) ==
    \E r \in DOMAIN runs, w \in 1 .. CONCURRENCY :
        runs[r].workers[w].pc = pc /\ runs[r].workers[w].item = i

\* the browser settles every wait but those of the file that hangs: the fetch of
\* each reference image ends, and no worker stays for ever in the decode or the
\* export of a file that does not hang.  (In one batch a wait that is settled is
\* not entered again, so the second part is weak fairness of the settling step.)
WaitsSettle ==
    \A i \in 1 .. MaxLongBatch, pc \in {"decode", "export"} :
        []<>~(WaitsAt(i, pc) /\ ~items[i].file.hangs)

SpecHang ==
    Init /\ [][NextHang]_vars /\ WF_<<bg48, bg96>>(ImageSettles) /\ WaitsSettle

\* the page with its export options: the quality chosen before the first
\* submission, window.UPNG loaded, missing, or throwing from encode
InitExport ==
    /\ BatchIdle /\ PureIdle
    /\ \E q \in Qualities : ui = [format |-> "png", quality |-> q]
    /\ \E u \in {"loaded", "missing", "throws"} : libs = [UPNG |-> u, JSZip |-> TRUE]

\* submissions of PNG files that decode
GoodLists ==
    UNION {[1 .. n -> {[type |-> "image/png", corrupt |-> FALSE, large |-> FALSE]}] :
              n \in 1 .. MaxFiles}

NextExport ==
    \/ \E files \in GoodLists : HandleFiles(files)
    \/ ChangeQuality
    \/ ChangeFormat
    \/ BgLoaded
    \/ DecodeSettled
    \/ ExportSettled

SpecExport == InitExport /\ [][NextExport]_vars

\* the page with its archive button
NextZip ==
    \/ \E files \in FileLists : HandleFiles(files)
    \/ ChangeQuality
    \/ BgLoaded
    \/ DecodeSettled
    \/ ExportSettled
    \/ DownloadAll
    \/ ZipSettled

SpecZip == Init /\ [][NextZip]_vars

\* batches that are processed while submissions come that the validation rejects:
\* no supported file, or more than MAX_BATCH of them
RejectedLists == {files \in IntakeLists : ~Accepts(files)}

NextReject ==
    \/ \E files \in FileLists \cup RejectedLists : HandleFiles(files)
    \/ BgLoaded
    \/ DecodeSettled
    \/ ExportSettled

SpecReject == Init /\ [][NextReject]_vars

\* one submission of PNG files with the quality select at any value of [0, 1], in
\* thousandths, and window.UPNG loaded
InitQuality ==
    /\ BatchIdle /\ PureIdle
    /\ \E q \in 0 .. 1000 : ui = [format |-> "png", quality |-> q]
    /\ libs = [UPNG |-> "loaded", JSZip |-> TRUE]

HandleGoodLists ==
    /\ runs = <<>>
    /\ \E files \in GoodLists : Set(handleFiles(St, files))
    /\ UNCHANGED <<geo, px, ras>>

NextQuality ==
    \/ HandleGoodLists
    \/ BgLoaded
    \/ DecodeSettled
    \/ ExportSettled

SpecQuality == InitQuality /\ [][NextQuality]_vars

\* the archive button after one submission of files that decode, with names that
\* leave safeFileBaseName equal or different: a.png, a.jpg, "a b.png", a_b.png, b.png
ArchiveFiles ==
    {[type |-> "image/png", corrupt |-> FALSE, large |-> FALSE,
      name |-> <<"a", ".", "p", "n", "g">>],
     [type |-> "image/jpeg", corrupt |-> FALSE, large |-> FALSE,
      name |-> <<"a", ".", "j", "p", "g">>],
     [type |-> "image/png", corrupt |-> FALSE, large |-> FALSE,
      name |-> <<"a", " ", "b", ".", "p", "n", "g">>],
     [type |-> "image/png", corrupt |-> FALSE, large |-> FALSE,
      name |-> <<"a", "_", "b", ".", "p", "n", "g">>],
     [type |-> "image/png", corrupt |-> FALSE, large |-> FALSE,
      name |-> <<"b", ".", "p", "n", "g">>]}

\* the files of one folder: no two of a submission have the same name
ArchiveLists ==
    {files \in UNION {[1 .. n -> ArchiveFiles] : n \in 1 .. MaxFiles} :
        \A j, k \in DOMAIN files : j # k => files[j].name # files[k].name}

HandleArchiveLists ==
    /\ runs = <<>>
    /\ \E files \in ArchiveLists : Set(handleFiles(St, files))
    /\ UNCHANGED <<geo, px, ras>>

NextArchive ==
    \/ HandleArchiveLists
    \/ BgLoaded
    \/ DecodeSettled
    \/ ExportSettled
    \/ DownloadAll
    \/ ZipSettled

SpecArchive == Init /\ [][NextArchive]_vars

-----------------------------------------------------------------------------
(* Specifications of the pure parts                                        *)

InitGeometry == GeoInit /\ px = PxIdle /\ ras = RasIdle /\ BatchIdle /\ LibsLoaded
NextGeometry == ResolveGeometry
SpecGeometry == InitGeometry /\ [][NextGeometry]_vars

InitPixel == PxInit /\ geo = GeoIdle /\ ras = RasIdle /\ BatchIdle /\ LibsLoaded
NextPixel == RestoreChannel
SpecPixel == InitPixel /\ [][NextPixel]_vars

InitRaster == RasInit /\ geo = GeoIdle /\ px = PxIdle /\ BatchIdle /\ LibsLoaded
NextRaster == RemoveWatermark
SpecRaster == InitRaster /\ [][NextRaster]_vars

-----------------------------------------------------------------------------
(* Geometry resolver                                                       *)

Config96 == [logoSize |-> 96, marginRight |-> 64, marginBottom |-> 64]
Config48 == [logoSize |-> 48, marginRight |-> 32, marginBottom |-> 32]

\* C1: the resolved config is {96, 64, 64} exactly when width > 1024 and
\* height > 1024, both strictly, and {48, 32, 32} for every other size.
ConfigByStrictSize ==
    geo.resolved =>
        /\ (geo.config = Config96) <=> (geo.imageWidth > 1024 /\ geo.imageHeight > 1024)
        /\ ~(geo.imageWidth > 1024 /\ geo.imageHeight > 1024) => geo.config = Config48

\* 1025 x 1024 has been resolved, to the 48 config
ConfigByStrictSizeWitness ==
    /\ geo.resolved
    /\ geo.imageWidth = 1025 /\ geo.imageHeight = 1024
    /\ geo.config = Config48

\* C2: for an image at least logoSize + margin wide and high, the rectangle of
\* calculateWatermarkPosition lies inside the raster.
RectInsideRaster ==
    (/\ geo.resolved
     /\ geo.imageWidth >= geo.config.logoSize + geo.config.marginRight
     /\ geo.imageHeight >= geo.config.logoSize + geo.config.marginBottom)
    => /\ 0 <= geo.position.x
       /\ 0 <= geo.position.y
       /\ geo.position.x + geo.position.width <= geo.imageWidth
       /\ geo.position.y + geo.position.height <= geo.imageHeight

\* the smallest such image, 80 x 80, has its rectangle at the origin
RectInsideRasterWitness ==
    /\ geo.resolved
    /\ geo.imageWidth = 80 /\ geo.imageHeight = 80
    /\ geo.position = [x |-> 0, y |-> 0, width |-> 48, height |-> 48]

-----------------------------------------------------------------------------
(* Watermark remover                                                       *)

Abs(n) == IF n < 0 THEN -n ELSE n

AlphaInClaimedRange(alpha) ==
    FracLeq(ALPHA_THRESHOLD, alpha) /\ FracLeq(alpha, MAX_ALPHA)

\* C3 as stated: for every alpha in [0.002, 0.99] and every x in 0..255, the
\* reverse blend of the stored composite is within 1 of x.
RoundTripWithinOne ==
    (px.restored # -1 /\ AlphaInClaimedRange(px.alpha))
        => Abs(px.restored - px.original) <= 1

TwoThirds == [num |-> 2, den |-> 3]

\* C3 amended: for every alpha in [0.002, 2/3] and every x in 0..255, the reverse
\* blend of the stored composite is within 1 of x.
RoundTripWithinOneUpToTwoThirds ==
    (/\ px.restored # -1
     /\ FracLeq(ALPHA_THRESHOLD, px.alpha)
     /\ FracLeq(px.alpha, TwoThirds))
        => Abs(px.restored - px.original) <= 1

\* a channel blended at alpha 2/3 came back one off
RoundTripWitness ==
    /\ px.restored # -1
    /\ px.alpha = [num |-> 170, den |-> 255]
    /\ px.watermarked # px.original
    /\ Abs(px.restored - px.original) = 1

RectInside(imageData, position) ==
    /\ 0 <= position.x
    /\ 0 <= position.y
    /\ position.x + position.width <= imageData.width
    /\ position.y + position.height <= imageData.height

\* byte i of the raster belongs to a rectangle pixel whose alpha is at least the
\* threshold, and is not that pixel's alpha channel
CorrectableByte(i) ==
    LET p == i \div 4
        row == (p \div ras.imageData.width) - ras.position.y
        col == (p % ras.imageData.width) - ras.position.x
    IN  /\ i % 4 # 3
        /\ row \in 0 .. ras.position.height - 1
        /\ col \in 0 .. ras.position.width - 1
        /\ ~FracLess(ras.alphaMap[row * ras.position.width + col], ALPHA_THRESHOLD)

\* C4: with the rectangle inside the raster, removeWatermark changes only R, G, B
\* bytes of rectangle pixels whose alpha is at least 0.002; alpha bytes, pixels
\* outside the rectangle and rectangle pixels below the threshold keep their value.
RemoveChangesOnlyRectRGB ==
    (ras.removed /\ RectInside(ras.imageData, ras.position)) =>
        \A i \in DOMAIN ras.imageData.data :
            ras.imageData.data[i] # ras.before[i] => CorrectableByte(i)

\* a rectangle inside the raster with a pixel below the threshold and a pixel
\* above it, whose colour bytes changed
RemoveChangesOnlyRectRGBWitness ==
    /\ ras.removed
    /\ RectInside(ras.imageData, ras.position)
    /\ \E k \in DOMAIN ras.alphaMap : FracLess(ras.alphaMap[k], ALPHA_THRESHOLD)
    /\ \E i \in DOMAIN ras.imageData.data :
          /\ ras.imageData.data[i] # ras.before[i]
          /\ ras.imageData.data[i + (3 - (i % 4))] = ras.before[i + (3 - (i % 4))]

-----------------------------------------------------------------------------
(* Batch scheduler: validation                                             *)

\* C5: a submission with 0 or more than 10 supported files is rejected with an
\* error on the status line, no BatchItem created and no worker started; one with
\* 1 to 10 supported files creates exactly one BatchItem per supported file, in
\* order, as the new batch.
ValidationByCount ==
    [][\A files \in IntakeLists :
          HandleFiles(files) =>
              LET onlyImages == SelectSeq(files, isSupportedImageFile)
                  n == Len(onlyImages)
              IN  IF n = 0 \/ n > 10
                  THEN /\ statusEl'.type = "error"
                       /\ statusEl'.text # ""
                       /\ items' = items
                       /\ batchItems' = batchItems
                       /\ runs' = runs
                  ELSE /\ Len(items') = Len(items) + n
                       /\ Len(batchItems') = n
                       /\ \A k \in 1 .. n :
                             /\ batchItems'[k] = Len(items) + k
                             /\ items'[batchItems'[k]].file = onlyImages[k]
                       /\ Len(runs') = Len(runs) + 1]_vars

\* a batch of exactly 10 was accepted and its workers hold its first two items;
\* a later submission of more than 10 was rejected
ValidationByCountWitness ==
    /\ Len(batchItems) = 10
    /\ \E r \in DOMAIN runs :
          /\ runs[r].items = batchItems
          /\ runs[r].picked = SubSeq(batchItems, 1, 2)
    /\ statusEl = [text |-> "Please upload 10 images or fewer.", type |-> "error"]

-----------------------------------------------------------------------------
(* Batch scheduler: workers                                                *)

IsPrefix(s, t) == Len(s) <= Len(t) /\ s = SubSeq(t, 1, Len(s))

StaleWorkersLeaveNewerRun ==
    \A r \in DOMAIN runs : runs[r].lateTouch = {}

\* C8: fileToImage is invoked at most once for every BatchItem.
DecodeAtMostOnce ==
    \A i \in DOMAIN items : items[i].decodes <= 1

\* C9: every URL issued for an item and not revoked is the one the item's
\* resultUrl holds: a URL is revoked before resultUrl is replaced or cleared, so
\* each item has at most one live URL.
OneLiveUrlPerItem ==
    \A i \in DOMAIN items :
        /\ items[i].liveUrls \subseteq {items[i].resultUrl}
        /\ Cardinality(items[i].liveUrls) <= 1

\* an item whose first URL was given up for a second one, which is live
OneLiveUrlPerItemWitness ==
    \E i \in DOMAIN items :
        /\ items[i].urlsIssued >= 2
        /\ items[i].resultUrl = items[i].urlsIssued
        /\ items[i].liveUrls = {items[i].resultUrl}

\* C10: every URL issued and not revoked belongs to an item of the current batch.
NoLiveUrlOutsideBatch ==
    \A i \in DOMAIN items :
        items[i].liveUrls # {} => i \in Range(batchItems)

-----------------------------------------------------------------------------
(* Batch scheduler: failures                                               *)

\* the fields of an item that a failure of another item must leave alone
Outcome(it) == [status |-> it.status, resultBlob |-> it.resultBlob,
                resultUrl |-> it.resultUrl, liveUrls |-> it.liveUrls]

\* C11: where a worker waits in the decode or the export of an item, a failure
\* there sets that item to error and adds exactly one to failedCount, leaves the
\* status, output and output reference of every other item as they are, and the
\* worker goes on to pick the next item of the batch if there is one.
FailureIsolated ==
    \A r \in DOMAIN runs, w \in 1 .. CONCURRENCY :
        runs[r].workers[w].pc \in {"decode", "export"} =>
            LET item == runs[r].workers[w].item
                S1 == CatchItem(St, item)
                S2 == ItemFailed(St, r, w, item)
            IN  /\ S1.items[item].status = "error"
                /\ S1.failedCount = failedCount + 1
                /\ S1.processedCount = processedCount
                /\ \A k \in DOMAIN items \ {item} :
                      Outcome(S1.items[k]) = Outcome(items[k])
                /\ S2.items[item].status = "error"
                /\ IF runs[r].cursor < Len(batchItems)
                   THEN IsPrefix(Append(runs[r].picked, batchItems[runs[r].cursor + 1]),
                                 S2.runs[r].picked)
                   ELSE S2.runs[r].workers[w].pc = "finished"

\* in a batch of three the first item failed and its worker, the first, went on to
\* the third item while the second worker still holds the second, untouched
FailureIsolatedWitness ==
    /\ Len(batchItems) = 3
    /\ items[batchItems[1]].status = "error"
    /\ failedCount = 1
    /\ \E r \in DOMAIN runs :
          /\ runs[r].workers[1].item = batchItems[3]
          /\ runs[r].workers[2].item = batchItems[2]
    /\ items[batchItems[2]].status = "queued"

Terminal(i) == items[i].status \in {"completed", "error"}

\* C12, the part on Done: the progress line reads Done only while every item of the
\* batch is completed or error.  (The other part, that every accepted run gets
\* there, needs every item of a run to leave queued, which C15 looks at.)
DoneOnlyWhenSettled ==
    progressText.phase = "Done" => \A i \in Range(batchItems) : Terminal(i)

-----------------------------------------------------------------------------
(* Archive                                                                 *)

CompletedNow == LET IsCompleted(i) == items[i].status = "completed"
                IN  SelectSeq(batchItems, IsCompleted)

\* C13: a call of downloadAllAsZip puts into the archive the items of the batch
\* whose status is completed at the call, with the outputs they hold then, and no
\* item that is queued, in progress or error; with no completed item it builds no
\* archive and changes nothing, and the button that calls it is disabled.
ZipOnlyCompleted ==
    /\ [](CompletedNow = <<>> => downloadAllDisabled)
    /\ [][DownloadAll =>
            IF CompletedNow = <<>> THEN UNCHANGED vars
            ELSE /\ Len(zips') = Len(zips) + 1
                 /\ items' = items /\ batchItems' = batchItems
                 /\ LET entries == zips'[Len(zips')].entries
                    IN  /\ Len(entries) = Len(CompletedNow)
                        /\ \A k \in DOMAIN entries :
                              /\ entries[k].item = CompletedNow[k]
                              /\ entries[k].blob = items[CompletedNow[k]].resultBlob
                              /\ entries[k].blob # NoBlob]_vars

\* an archive is being generated with the second item of the batch as its only
\* entry; the first item is with a worker
ZipOnlyCompletedWitness ==
    /\ Len(batchItems) = 2
    /\ items[batchItems[1]].status = "queued"
    /\ \E r \in DOMAIN runs, w \in 1 .. CONCURRENCY :
          /\ runs[r].workers[w].pc \in {"decode", "export"}
          /\ runs[r].workers[w].item = batchItems[1]
    /\ \E z \in DOMAIN zips :
          /\ zips[z].pc = "generating"
          /\ Len(zips[z].entries) = 1
          /\ zips[z].entries[1].item = batchItems[2]

-----------------------------------------------------------------------------
(* Export                                                                  *)

\* PNG below 99.9% is selected and window.UPNG is missing or its encode throws
QuantizerFails(S) ==
    /\ getOutputSpec(S).mime = "image/png"
    /\ getOutputSpec(S).quality < 999
    /\ S.libs.UPNG \in {"missing", "throws"}

LosslessPng == [mime |-> "image/png", colors |-> 0]

\* C14: with PNG below 99.9% selected and the quantizing encoder missing or
\* throwing, (a) the output stored for an item is a lossless PNG, (b) an export
\* started then leaves a notice that is not an error on the status line, and (c) a
\* change of quality or format made then starts a reprocess run and raises no error.
LosslessFallback ==
    /\ [](\A i \in DOMAIN items :
             (/\ items[i].outSpec.mime = "image/png"
              /\ items[i].outSpec.quality < 999
              /\ libs.UPNG \in {"missing", "throws"})
             => items[i].resultBlob = LosslessPng)
    /\ [][\A r \in DOMAIN runs', w \in 1 .. CONCURRENCY :
            (/\ QuantizerFails(St)'
             /\ runs'[r].workers[w].pc = "export"
             /\ runs'[r].workers[w].spec = getOutputSpec(St)'
             /\ r \in DOMAIN runs => runs[r].workers[w] # runs'[r].workers[w])
            => /\ statusEl'.type = "info"
               /\ statusEl'.text \in {UpngNotice.missing, UpngNotice.throws}]_vars
    /\ [][((ChangeQuality \/ ChangeFormat) /\ QuantizerFails(St)')
            => /\ Len(runs') = Len(runs) + 1
               /\ runs'[Len(runs')].kind = "reprocess"
               /\ statusEl'.type # "error"]_vars

-----------------------------------------------------------------------------
(* Batch scheduler: setup failure                                          *)

\* C15: when the wait of a handleFiles call for the alpha maps fails, the call has
\* started no worker and picked no item, the setup diagnostic is on the status
\* line, and every item of its batch has status error.
SetupFailureFailsBatch ==
    [][\A r \in DOMAIN runs :
          (runs[r].phase = "awaitMaps" /\ runs'[r].phase = "setupFailed") =>
              /\ runs'[r].picked = <<>>
              /\ \A w \in 1 .. CONCURRENCY : runs'[r].workers[w].pc = "idle"
              /\ statusEl' = [text |-> "Failed to load watermark maps.", type |-> "error"]
              /\ \A k \in DOMAIN runs[r].items :
                    items'[runs[r].items[k]].status = "error"]_vars

-----------------------------------------------------------------------------
(* Watermark remover: rectangle outside the raster                         *)

\* a rectangle as calculateWatermarkPosition gives it for an image smaller than
\* logoSize + margin: it ends inside the raster and starts left of it or above it
SmallImageRect ==
    /\ ras.position.x + ras.position.width <= ras.imageData.width
    /\ ras.position.y + ras.position.height <= ras.imageData.height
    /\ ras.position.x < 0 \/ ras.position.y < 0

\* C16: for the rectangle of an image smaller than logoSize + margin,
\* removeWatermark ends in an error and no byte of the raster is modified.
OutsideRectIsError ==
    (ras.removed /\ SmallImageRect) =>
        /\ ras.outcome = "threw"
        /\ ras.imageData.data = ras.before

-----------------------------------------------------------------------------
(* Batch scheduler: counters, workers in flight, item status               *)

WithStatus(status) == {i \in Range(batchItems) : items[i].status = status}

\* C17: processedCount is the number of items of the batch with status completed,
\* failedCount the number with status error, and the done count of the progress
\* line is at most the batch total.
CountersMatchBatch ==
    /\ processedCount = Cardinality(WithStatus("completed"))
    /\ failedCount = Cardinality(WithStatus("error"))
    /\ processedCount + failedCount <= Len(batchItems)
    /\ progressText.done <= progressText.total

\* the items some worker has picked and not yet completed or failed
ItemsInFlight ==
    {i \in DOMAIN items :
        \E r \in DOMAIN runs, w \in 1 .. CONCURRENCY :
            /\ runs[r].workers[w].pc \in {"decode", "export"}
            /\ runs[r].workers[w].item = i}

\* C18: at most 2 items are in flight at any time.
AtMostTwoInFlight == Cardinality(ItemsInFlight) <= CONCURRENCY

\* no call is waiting for the alpha maps and no worker for a decode or an export
Quiet == \A r \in DOMAIN runs : runs[r].phase # "awaitMaps" /\ ~InFlight(runs[r])

\* C19: when every item of the batch is completed or error and nothing is in
\* flight, the output and the extension of every completed item were produced
\* with the OutputSpec of the latest run.
UniformOutputSpec ==
    (/\ runs # <<>>
     /\ Quiet
     /\ \A i \in Range(batchItems) : Terminal(i))
    => \A i \in Range(batchItems) :
          items[i].status = "completed" =>
              /\ items[i].outSpec = runs[Len(runs)].spec
              /\ items[i].resultExt = runs[Len(runs)].spec.ext

HeldIn(S, i, pc) ==
    \E r \in DOMAIN S.runs, w \in 1 .. CONCURRENCY :
        S.runs[r].workers[w].pc = pc /\ S.runs[r].workers[w].item = i

\* where an item is on the way from queued to completed or error: item.status, and
\* below that the stage a worker holds it in (the watermark removal itself runs
\* without a suspension, between loading and encoding)
Phase(S, i) ==
    IF S.items[i].status \in {"completed", "error"} THEN S.items[i].status
    ELSE IF HeldIn(S, i, "export") THEN "encoding"
    ELSE IF HeldIn(S, i, "decode") THEN "loading"
    ELSE "queued"

Rank(phase) ==
    CASE phase = "queued" -> 0
      [] phase = "loading" -> 1
      [] phase = "encoding" -> 2
      [] phase \in {"completed", "error"} -> 3

\* the step is the reset of reprocessCurrentBatch
ReprocessStep == Len(runs') = Len(runs) + 1 /\ runs'[Len(runs')].kind = "reprocess"

\* C20: in every step an item either keeps its place or moves forward along
\* queued, loading, encoding, completed or error; an item that is completed or
\* error changes status only in the reset of reprocessCurrentBatch, which puts the
\* items of the batch back to queued.
StatusMovesForward ==
    [][\A i \in DOMAIN items :
          IF ReprocessStep /\ i \in Range(batchItems) THEN TRUE
          ELSE IF Terminal(i) THEN items'[i].status = items[i].status
          ELSE Rank(Phase(St, i)') >= Rank(Phase(St, i))]_vars

-----------------------------------------------------------------------------
(* Alpha maps                                                              *)

\* C21: the watermark removal of an item is never entered with the alpha map of
\* the item's size still null, whatever calls of handleFiles, reprocessCurrentBatch
\* and resetUI came before.
RemovalHasItsMap ==
    \A i \in DOMAIN items : ~items[i].nullMap

\* C22: once a reference image has failed to load, every accepted call of
\* handleFiles, made before or after the failure, eventually leaves its wait in
\* ensureAlphaMapsReady through the catch that shows the setup error.
SetupErrorSurfaces ==
    \A r \in 1 .. MaxRuns :
        [](r \in DOMAIN runs /\ (bg48 = "failed" \/ bg96 = "failed")
             => <>(r \in DOMAIN runs /\ runs[r].phase = "setupFailed"))

\* C23: each alpha map is built at most once over all calls, and a map that is
\* set stays the map it is: no step assigns it again or builds another one.
MapsBuiltOnce ==
    /\ [](mapBuilds.b48 <= 1 /\ mapBuilds.b96 <= 1)
    /\ [][/\ alpha48 => alpha48' /\ mapBuilds'.b48 = mapBuilds.b48
          /\ alpha96 => alpha96' /\ mapBuilds'.b96 = mapBuilds.b96]_vars

\* two calls of handleFiles got through ensureAlphaMapsReady, the first after a
\* wait, and each map was built once
MapsBuiltOnceWitness ==
    /\ Len(runs) = 2
    /\ runs[1].phase = "working" /\ runs[2].phase = "working"
    /\ bgHandler # [b48 |-> 0, b96 |-> 0]
    /\ alpha48 /\ alpha96
    /\ mapBuilds = [b48 |-> 1, b96 |-> 1]

-----------------------------------------------------------------------------
(* Progress of a batch                                                     *)

\* C24: in a batch where the processing of one file hangs and every other wait is
\* settled, every other item eventually is completed or error.
OthersFinish ==
    \A i \in 1 .. MaxLongBatch :
        [](i \in DOMAIN items
             => <>(i \in DOMAIN items /\ (items[i].file.hangs \/ Terminal(i))))

\* the first of three items hangs in its decode with the first worker, and the
\* second worker has brought the two others to their end
OthersFinishWitness ==
    /\ Len(batchItems) = 3
    /\ items[1].file.hangs /\ WaitsAt(1, "decode")
    /\ items[2].status = "completed" /\ items[3].status = "error"
    /\ \E r \in DOMAIN runs : runs[r].workers[2].pc = "finished"

\* C25: the workers of one call write the diagnostic of failed items to the status
\* line at most once, however many items of the run fail.
OneFailureNoticePerRun ==
    \A r \in DOMAIN runs : runs[r].notices <= 1

\* C26: the archive a call of downloadAllAsZip builds has one entry for each item
\* that is completed at the call, as many entries as completed items, whatever the
\* names of the files.
ArchiveEntryPerCompleted ==
    [][DownloadAll /\ CompletedNow # <<>> =>
          LET archive == zips'[Len(zips')].archive
          IN  /\ Cardinality(archive) = Len(CompletedNow)
              /\ \A i \in Range(CompletedNow) : \E e \in archive : e.item = i]_vars

-----------------------------------------------------------------------------
(* Reset of a batch                                                        *)

\* the step of a quality or format change that goes on to start workers
ReprocessStarts ==
    /\ Len(runs') = Len(runs) + 1
    /\ runs'[Len(runs')].kind = "reprocess"

\* C27: whenever reprocessCurrentBatch would go on to its workers, the state it
\* has made before it starts them has every item of the batch queued, with its
\* output reference revoked and cleared and its output cleared, both counters 0
\* and no worker started, and has the decoded image and the file of every item
\* and the batch, in its order, as they were; the step as a whole, workers
\* included, leaves the batch and the decoded images that were there.
ReprocessResetsFirst ==
    /\ [](Len(batchItems) > 0 =>
            LET T == ResetBatch(St)
            IN  /\ T.batchItems = batchItems
                /\ T.processedCount = 0 /\ T.failedCount = 0
                /\ Len(T.runs) = Len(runs)
                /\ \A r \in DOMAIN runs : /\ T.runs[r].workers = runs[r].workers
                                          /\ T.runs[r].cursor = runs[r].cursor
                /\ DOMAIN T.items = DOMAIN items
                /\ \A i \in Range(batchItems) :
                      /\ T.items[i].status = "queued"
                      /\ T.items[i].resultUrl = 0
                      /\ T.items[i].resultBlob = NoBlob
                      /\ T.items[i].liveUrls = items[i].liveUrls \ {items[i].resultUrl}
                      /\ T.items[i].originalImg = items[i].originalImg
                      /\ T.items[i].file = items[i].file
                /\ \A i \in DOMAIN items \ Range(batchItems) : T.items[i] = items[i])
    /\ [][ReprocessStarts =>
            /\ batchItems' = batchItems
            /\ \A i \in Range(batchItems) :
                  /\ items'[i].file = items[i].file
                  /\ items[i].originalImg => items'[i].originalImg]_vars

\* a change of the options has reset a completed item: it is queued again with no
\* output and no live reference, holds its decoded image, and is with a worker of
\* the reprocess run
ReprocessResetsFirstWitness ==
    \E i \in Range(batchItems), r \in DOMAIN runs, w \in 1 .. CONCURRENCY :
        /\ runs[r].kind = "reprocess"
        /\ runs[r].workers[w].pc = "export" /\ runs[r].workers[w].item = i
        /\ items[i].urlsIssued = 1
        /\ items[i].status = "queued"
        /\ items[i].resultUrl = 0 /\ items[i].resultBlob = NoBlob
        /\ items[i].liveUrls = {}
        /\ items[i].originalImg
        /\ processedCount = 0 /\ failedCount = 0

-----------------------------------------------------------------------------
(* PNG quality                                                             *)

\* C28: a PNG output made at quality q is not quantized when q >= 0.999, is
\* quantized to 256 colours when 0.85 <= q < 0.999, and to 192 colours when
\* q < 0.85 (q in thousandths).
PngColorBudget ==
    \A i \in DOMAIN items :
        items[i].status = "completed" /\ items[i].outSpec.mime = "image/png" =>
            LET q == items[i].outSpec.quality
                colors == items[i].resultBlob.colors
            IN  /\ q >= 999 => colors = 0
                /\ q >= 850 /\ q < 999 => colors = 256
                /\ q < 850 => colors = 192

\* an item exported at exactly 0.85 holds a PNG of 256 colours
PngColorBudgetWitness ==
    \E i \in DOMAIN items :
        /\ items[i].status = "completed"
        /\ items[i].outSpec = [mime |-> "image/png", ext |-> "png", quality |-> 850]
        /\ items[i].resultBlob = [mime |-> "image/png", colors |-> 256]

-----------------------------------------------------------------------------
(* Rejected submissions                                                    *)

RejectTexts == {"Please upload PNG, JPG, or WebP images.",
                "Please upload 10 images or fewer."}

\* C29: a call of handleFiles that the validation rejects leaves the batch as it
\* is: the items with their status, output and output reference, the live
\* references, the list and its order, both counters, and the calls in flight.
RejectedCallKeepsBatch ==
    [][\A files \in RejectedLists :
          HandleFiles(files) =>
              /\ statusEl'.text \in RejectTexts
              /\ UNCHANGED <<items, batchItems, processedCount, failedCount, runs,
                             progressText, downloadAllDisabled>>]_vars

\* a submission of too many files was rejected while both items of the batch are
\* completed, each with its live reference
RejectedCallKeepsBatchWitness ==
    /\ statusEl = [text |-> "Please upload 10 images or fewer.", type |-> "error"]
    /\ Len(batchItems) = 2
    /\ processedCount = 2
    /\ \A i \in Range(batchItems) :
          /\ items[i].status = "completed"
          /\ items[i].resultUrl \in items[i].liveUrls

=============================================================================
